---- MODULE Spec2Model ----
(***************************************************************************)
(* Model of onionshare_gui/file_selection.py: the FileList widget (a       *)
(* sorted QListWidget plus the parallel list FileList.filenames) and the   *)
(* FileSelection layout around it (info label, Add and Delete buttons,     *)
(* server_on flag).                                                        *)
(*                                                                         *)
(* Strings are sequences of code points, so that str comparison,           *)
(* rstrip('/'), os.path.basename and the item text are computed the way    *)
(* Python and Qt compute them.                                             *)
(***************************************************************************)
EXTENDS Integers, Sequences, FiniteSets, TLC

\* ------------------------------------------------------------------------
\* Bounds
\* ------------------------------------------------------------------------

\* Number of items the list shows at a time.
MaxItems == 2

\* Number of paths in one drop event or one accepted file dialog.
MaxBatch == 2

\* Number of items in the list when the selecting and deleting starts.
MaxSelect == 3

\* ------------------------------------------------------------------------
\* The file system the widget looks at
\* ------------------------------------------------------------------------

\* "/a/z": a readable file of 5 bytes
PathAZ == <<47, 97, 47, 122>>
\* "/b/a/": a readable directory holding 7 bytes, given with a trailing slash
PathBA == <<47, 98, 47, 97, 47>>
\* "/c": a file that is not readable by this process
PathC == <<47, 99>>
\* "/d/z": a readable file of 5 bytes, with the basename and size of "/a/z"
PathDZ == <<47, 100, 47, 122>>

Paths == {PathAZ, PathBA, PathC}

\* os.access(filename, os.R_OK)
Readable(filename) == filename # PathC

\* os.path.isfile(filename)
IsFile(filename) == filename \in {PathAZ, PathC, PathDZ}

\* QFileInfo(filename).size() for a file
FileInfoSize(filename) == IF filename \in {PathAZ, PathDZ} THEN 5 ELSE 0

\* common.dir_size(filename) for a directory
DirSize(filename) == IF filename = PathBA THEN 7 ELSE 0

\* ------------------------------------------------------------------------
\* Strings
\* ------------------------------------------------------------------------

\* Python's str < str: the code points at the first position where the two
\* differ decide; a proper prefix is smaller.
RECURSIVE StrLessFrom(_, _, _)
StrLessFrom(a, b, i) ==
    IF i > Len(b) THEN FALSE
    ELSE IF i > Len(a) THEN TRUE
    ELSE IF a[i] # b[i] THEN a[i] < b[i]
    ELSE StrLessFrom(a, b, i + 1)

StrLess(a, b) == StrLessFrom(a, b, 1)

\* filename.rstrip('/')
RECURSIVE RStripSlash(_)
RStripSlash(s) ==
    IF Len(s) > 0 /\ s[Len(s)] = 47
    THEN RStripSlash(SubSeq(s, 1, Len(s) - 1))
    ELSE s

\* os.path.basename(p): what follows the last '/'
Basename(p) ==
    LET slashes == {i \in 1..Len(p) : p[i] = 47}
    IN  IF slashes = {} THEN p
        ELSE SubSeq(p, (CHOOSE i \in slashes : \A j \in slashes : j <= i) + 1, Len(p))

\* Decimal digits of a natural number
RECURSIVE Digits(_)
Digits(n) ==
    IF n < 10 THEN <<48 + n>>
    ELSE Digits(n \div 10) \o <<48 + (n % 10)>>

\* common.human_readable_filesize(b): '{0:.1f} B' below 1024 bytes, and
\* '{0:.1f} KiB' (rounded to a tenth) from there to 1024 KiB.
HumanReadableFilesize(b) ==
    IF b < 1024
    THEN Digits(b) \o <<46, 48, 32, 66>>
    ELSE LET tenths == (b * 10 + 512) \div 1024
         IN  Digits(tenths \div 10) \o <<46, 48 + (tenths % 10)>> \o <<32, 75, 105, 66>>

\* list.sort() on a list of str, as a stable insertion sort
RECURSIVE SortedInsert(_, _)
SortedInsert(s, x) ==
    IF s = <<>> THEN <<x>>
    ELSE IF StrLess(x, Head(s)) THEN <<x>> \o s
    ELSE <<Head(s)>> \o SortedInsert(Tail(s), x)

RECURSIVE Sort(_)
Sort(s) ==
    IF s = <<>> THEN <<>>
    ELSE SortedInsert(Sort(SubSeq(s, 1, Len(s) - 1)), s[Len(s)])

Range(s) == {s[i] : i \in 1..Len(s)}

RemoveAt(s, i) == SubSeq(s, 1, i - 1) \o SubSeq(s, i + 1, Len(s))

InsertAt(s, i, x) == SubSeq(s, 1, i - 1) \o <<x>> \o SubSeq(s, i, Len(s))

\* ------------------------------------------------------------------------
\* State
\* ------------------------------------------------------------------------

VARIABLES
    filenames,      \* FileList.filenames: the tracked path list
    created,        \* the QListWidgetItem objects made by add_file, by
                    \* identity: [filename, text, size_bytes, item_button]
                    \* (item_button: is the item's delete button visible?)
    items,          \* the rows of the QListWidget: item identities, in order
    taken,          \* has an item been taken out of the list? (its
                    \* delete_item closure is still there to be called)
    currentItem,    \* FileList.currentItem(): an identity, or 0 for None
    ranges,         \* the selection model's committed selection (items)
    pending,        \* its current selection, not committed yet (items)
    pendingToggle,  \* is the current selection a toggle of the committed one?
    selectionMode,  \* FileList.selectionMode()
    acceptDrops,    \* FileList.acceptDrops()
    server_on,      \* FileSelection.server_on
    info_label,     \* [visible, file_count, total_size_readable]
    add_button,     \* visible?
    delete_button,  \* visible?
    drop_here,      \* drop_here_image and drop_here_text visible?
    drop_count,     \* drop_count visible?
    lastOp,         \* the operation that ran last: [name, item, filename]
    signals,        \* what the last operation did that can be observed, in
                    \* order: "alert" (an Alert was shown), "files_updated"
                    \* (the signal was emitted), "update"
                    \* (FileSelection.update ran)
    raised          \* the last operation ended in an IndexError

vars == <<filenames, created, items, taken, currentItem, ranges, pending, pendingToggle,
          selectionMode,
          acceptDrops, server_on, info_label, add_button, delete_button,
          drop_here, drop_count, lastOp, signals, raised>>

\* The state as one record, so that the methods are operators on it.
State ==
    [filenames |-> filenames, created |-> created, items |-> items,
     taken |-> taken, currentItem |-> currentItem, ranges |-> ranges,
     pending |-> pending, pendingToggle |-> pendingToggle,
     selectionMode |-> selectionMode, acceptDrops |-> acceptDrops,
     server_on |-> server_on, info_label |-> info_label,
     add_button |-> add_button, delete_button |-> delete_button,
     drop_here |-> drop_here, drop_count |-> drop_count,
     signals |-> <<>>, raised |-> FALSE]

\* QListWidget.count()
Count(st) == Len(st.items)

\* QListWidget.row(item): 0-based, -1 for an item that is not in the list
Row(st, item) ==
    IF \E i \in 1..Len(st.items) : st.items[i] = item
    THEN (CHOOSE i \in 1..Len(st.items) : st.items[i] = item) - 1
    ELSE -1

\* QListWidget.selectedItems(): the committed selection, with the current
\* selection added to it or toggled in it
SelectedItems(st) ==
    IF st.pendingToggle
    THEN (st.ranges \ st.pending) \cup (st.pending \ st.ranges)
    ELSE st.ranges \cup st.pending

\* QItemSelectionModel commits the current selection
Finalize(st) ==
    [st EXCEPT !.ranges = SelectedItems(st), !.pending = {},
               !.pendingToggle = FALSE]

\* The paths of the displayed items, row by row
ItemPaths(st) == [i \in 1..Len(st.items) |-> st.created[st.items[i]].filename]

\* ------------------------------------------------------------------------
\* FileList.update and FileSelection.update
\* ------------------------------------------------------------------------

FileList_update(st) == [st EXCEPT !.drop_here = (Len(st.filenames) = 0)]

RECURSIVE SumSizes(_, _)
SumSizes(st, n) ==
    IF n = 0 THEN 0
    ELSE SumSizes(st, n - 1) + st.created[st.items[n]].size_bytes

FileSelection_update(st) ==
    LET file_count == Count(st)
        label == IF file_count = 0
                 THEN [st.info_label EXCEPT !.visible = FALSE]
                 ELSE [visible |-> TRUE,
                       file_count |-> file_count,
                       total_size_readable |->
                           HumanReadableFilesize(SumSizes(st, file_count))]
        s1 == [st EXCEPT !.info_label = label,
                         !.add_button = ~st.server_on,
                         !.delete_button = (~st.server_on /\ st.currentItem # 0),
                         !.signals = Append(@, "update")]
    IN  FileList_update(s1)

\* A faulty files_updated.emit(): FileSelection.update is not connected
EmitFilesUpdated_NotConnected(st) ==
    [st EXCEPT !.signals = Append(@, "files_updated")]

\* files_updated.emit(): FileSelection.update is connected to it
EmitFilesUpdated(st) ==
    FileSelection_update([st EXCEPT !.signals = Append(@, "files_updated")])

\* ------------------------------------------------------------------------
\* The QListWidget operations the code uses
\* ------------------------------------------------------------------------

\* setCurrentItem(None). currentItemChanged (connected to
\* FileSelection.update) fires when there was a current item. In
\* ExtendedSelection mode the selection model replaces its current selection
\* by the empty one (SelectCurrent); in NoSelection mode the selection is not
\* touched (NoUpdate).
SetCurrentItemNone(st) ==
    LET s1 == IF st.selectionMode = "NoSelection"
              THEN [st EXCEPT !.currentItem = 0]
              ELSE [st EXCEPT !.currentItem = 0, !.pending = {},
                              !.pendingToggle = FALSE]
    IN  IF st.currentItem # 0 THEN FileSelection_update(s1) ELSE s1

\* takeItem(row): None for a row outside the list. The selection model
\* commits the current selection; when the current item is taken, the row
\* above (else the row below, else nothing) becomes current and
\* currentItemChanged fires while the row is still counted.
TakeItem(st, row) ==
    IF row < 0 \/ row >= Count(st) THEN st
    ELSE LET item == st.items[row + 1]
             next == IF row > 0 THEN st.items[row]
                     ELSE IF row + 1 < Count(st) THEN st.items[row + 2]
                     ELSE 0
             s0 == Finalize(st)
             s1 == IF s0.currentItem = item
                   THEN FileSelection_update([s0 EXCEPT !.currentItem = next])
                   ELSE s0
         IN  [s1 EXCEPT !.items = RemoveAt(@, row + 1),
                        !.ranges = @ \ {item},
                        !.taken = TRUE]

\* QListWidgetItem.operator<, which orders the rows of a sorted list widget:
\* a comparison of the item texts (locale aware in Qt 5; on the lower case
\* ASCII names and the digits used here it is the code point order).
TextLess(a, b) == StrLess(a, b)

\* addItem(item) with sorting enabled: the item goes before the first row
\* whose text is not smaller than its own (std::lower_bound). The selection
\* model commits the current selection.
AddItem(st, item) ==
    LET text == st.created[item].text
        less == {i \in 1..Len(st.items) :
                    TextLess(st.created[st.items[i]].text, text)}
    IN  [Finalize(st) EXCEPT !.items = InsertAt(@, Cardinality(less) + 1, item)]

\* list.pop(i) can run: i, counted from the end when negative, is in range
PopOk(list, i) == -Len(list) <= i /\ i < Len(list)

\* list.pop(i): the list without that element
Pop(list, i) == RemoveAt(list, IF i < 0 THEN Len(list) + i + 1 ELSE i + 1)

\* ------------------------------------------------------------------------
\* FileList
\* ------------------------------------------------------------------------

\* size_bytes as add_file computes it
SizeBytes(filename) ==
    IF IsFile(filename) THEN FileInfoSize(filename) ELSE DirSize(filename)

\* The QListWidgetItem add_file builds for filename
NewItem(filename) ==
    LET basename == Basename(RStripSlash(filename))
        size_bytes == SizeBytes(filename)
        size_readable == HumanReadableFilesize(size_bytes)
    IN  [filename |-> filename,
         text |-> basename \o <<32, 40>> \o size_readable \o <<41>>,
         size_bytes |-> size_bytes,
         item_button |-> TRUE]

\* A faulty add_file: the path is appended before it is checked
add_file_AppendBeforeCheck(st, filename) ==
    IF filename \in Range(st.filenames) THEN st
    ELSE IF ~Readable(filename)
    THEN [st EXCEPT !.filenames = Sort(Append(@, filename)),
                    !.signals = Append(@, "alert")]
    ELSE LET item == Len(st.created) + 1
             s1 == [st EXCEPT !.filenames = Sort(Append(@, filename)),
                              !.created = Append(@, NewItem(filename))]
         IN  EmitFilesUpdated(AddItem(s1, item))

\* A faulty add_file: the list is not sorted again after the append
add_file_NoSort(st, filename) ==
    IF filename \in Range(st.filenames) THEN st
    ELSE IF ~Readable(filename)
    THEN [st EXCEPT !.signals = Append(@, "alert")]
    ELSE LET item == Len(st.created) + 1
             s1 == [st EXCEPT !.filenames = Append(@, filename),
                              !.created = Append(@, NewItem(filename))]
         IN  EmitFilesUpdated(AddItem(s1, item))

\* A faulty add_file: nothing is added while the server is running
add_file_ServerGuard(st, filename) ==
    IF st.server_on \/ filename \in Range(st.filenames) THEN st
    ELSE IF ~Readable(filename)
    THEN [st EXCEPT !.signals = Append(@, "alert")]
    ELSE LET item == Len(st.created) + 1
             s1 == [st EXCEPT !.filenames = Sort(Append(@, filename)),
                              !.created = Append(@, NewItem(filename))]
         IN  EmitFilesUpdated(AddItem(s1, item))

\* FileList.add_file(filename)
add_file(st, filename) ==
    IF filename \in Range(st.filenames) THEN st
    ELSE IF ~Readable(filename)
    THEN [st EXCEPT !.signals = Append(@, "alert")]
    ELSE LET item == Len(st.created) + 1
             s1 == [st EXCEPT !.filenames = Sort(Append(@, filename)),
                              !.created = Append(@, NewItem(filename))]
         IN  EmitFilesUpdated(AddItem(s1, item))

\* A faulty delete_item: the item is taken out of the widget and its path
\* stays in filenames
delete_item_NoPop(st, item) ==
    EmitFilesUpdated(TakeItem(st, Row(st, item)))

\* The closure delete_item that add_file connects to the item's button
delete_item(st, item) ==
    LET itemrow == Row(st, item)
    IN  IF ~PopOk(st.filenames, itemrow)
        THEN [st EXCEPT !.raised = TRUE]
        ELSE EmitFilesUpdated(
                 TakeItem([st EXCEPT !.filenames = Pop(@, itemrow)], itemrow))

\* A faulty loop: the first path that is not readable ends it
RECURSIVE AddFiles_StopAtAlert(_, _)
AddFiles_StopAtAlert(st, urls) ==
    IF urls = <<>> THEN st
    ELSE LET s1 == add_file(st, Head(urls))
         IN  IF Len(s1.signals) > Len(st.signals) /\ s1.signals[Len(s1.signals)] = "alert"
             THEN s1
             ELSE AddFiles_StopAtAlert(s1, Tail(urls))

\* for url in urls: add_file(url)
RECURSIVE AddFiles(_, _)
AddFiles(st, urls) ==
    IF urls = <<>> THEN st
    ELSE AddFiles(add_file(st, Head(urls)), Tail(urls))

\* FileList.dropEvent(event), urls being event.mimeData().urls(). hasUrls is
\* tested as an attribute, which is always true.
dropEvent(st, urls) ==
    LET s1 == AddFiles(st, urls)
        s2 == [s1 EXCEPT !.drop_count = FALSE]
    IN  FileSelection_update(s2)

\* FileList.dragEnterEvent(event)
dragEnterEvent(st) == [st EXCEPT !.drop_count = TRUE]

\* A faulty FileList.dragLeaveEvent: the closing self.update() is missing
dragLeaveEvent_NoUpdate(st) == [st EXCEPT !.drop_count = FALSE]

\* FileList.dragLeaveEvent(event)
dragLeaveEvent(st) == FileList_update([st EXCEPT !.drop_count = FALSE])

\* DropHereLabel.dragEnterEvent(event)
DropHereLabel_dragEnterEvent(st) == [st EXCEPT !.drop_here = FALSE]

\* item_button.hide() / show() for every row
SetItemButtons(st, visible) ==
    [st EXCEPT !.created =
        [i \in 1..Len(st.created) |->
            IF i \in Range(st.items)
            THEN [st.created[i] EXCEPT !.item_button = visible]
            ELSE st.created[i]]]

\* A faulty FileList.server_started: drops stay accepted
FileList_server_started_KeepDrops(st) ==
    LET s2 == SetCurrentItemNone(st)
        s3 == [s2 EXCEPT !.selectionMode = "NoSelection"]
    IN  SetItemButtons(s3, FALSE)

\* FileList.server_started()
FileList_server_started(st) ==
    LET s1 == [st EXCEPT !.acceptDrops = FALSE]
        s2 == SetCurrentItemNone(s1)
        s3 == [s2 EXCEPT !.selectionMode = "NoSelection"]
    IN  SetItemButtons(s3, FALSE)

\* A faulty FileList.server_stopped: the item buttons are not shown again
FileList_server_stopped_NoShow(st) ==
    [st EXCEPT !.acceptDrops = TRUE,
               !.selectionMode = "ExtendedSelection"]

\* FileList.server_stopped()
FileList_server_stopped(st) ==
    LET s1 == [st EXCEPT !.acceptDrops = TRUE,
                         !.selectionMode = "ExtendedSelection"]
    IN  SetItemButtons(s1, TRUE)

\* ------------------------------------------------------------------------
\* FileSelection
\* ------------------------------------------------------------------------

\* FileSelection.add(): accepted and selectedFiles are what the file dialog
\* returns.
FileSelection_add(st, accepted, selectedFiles) ==
    LET s1 == IF accepted THEN AddFiles(st, selectedFiles) ELSE st
    IN  FileSelection_update(SetCurrentItemNone(s1))

\* Pop and take the rows of the sequence rows, one after the other
RECURSIVE DeleteRows(_, _)
DeleteRows(st, rows) ==
    IF rows = <<>> THEN st
    ELSE IF ~PopOk(st.filenames, Head(rows))
    THEN [st EXCEPT !.raised = TRUE]
    ELSE DeleteRows(
             TakeItem([st EXCEPT !.filenames = Pop(@, Head(rows))], Head(rows)),
             Tail(rows))

\* A faulty loop: the rows of the selected items are all looked up before
\* the first removal
DeleteLoop_RowsUpFront(st, sel) ==
    DeleteRows(st, [k \in 1..Len(sel) |-> Row(st, sel[k])])

\* for item in selected: the loop of FileSelection.delete
RECURSIVE DeleteLoop(_, _)
DeleteLoop(st, sel) ==
    IF sel = <<>> THEN st
    ELSE LET itemrow == Row(st, Head(sel))
         IN  IF ~PopOk(st.filenames, itemrow)
             THEN [st EXCEPT !.raised = TRUE]
             ELSE DeleteLoop(
                      TakeItem([st EXCEPT !.filenames = Pop(@, itemrow)], itemrow),
                      Tail(sel))

\* FileSelection.delete(): sel is selectedItems(), in the order Qt returns
\* them.
FileSelection_delete(st, sel) ==
    LET s1 == DeleteLoop(st, sel)
    IN  IF s1.raised THEN s1
        ELSE FileSelection_update(SetCurrentItemNone(EmitFilesUpdated(s1)))

\* A faulty FileSelection.server_started: it empties the tracked path list
FileSelection_server_started_Clear(st) ==
    FileSelection_update(
        FileList_server_started([st EXCEPT !.server_on = TRUE,
                                           !.filenames = <<>>]))

\* FileSelection.server_started()
FileSelection_server_started(st) ==
    FileSelection_update(
        FileList_server_started([st EXCEPT !.server_on = TRUE]))

\* A faulty FileSelection.server_stopped: the flag is left set
FileSelection_server_stopped_KeepFlag(st) ==
    FileSelection_update(FileList_server_stopped(st))

\* FileSelection.server_stopped()
FileSelection_server_stopped(st) ==
    FileSelection_update(
        FileList_server_stopped([st EXCEPT !.server_on = FALSE]))

\* FileSelection.get_num_files()
get_num_files(st) == Len(st.filenames)

\* ------------------------------------------------------------------------
\* Mouse clicks on the rows of the list (QAbstractItemView)
\* ------------------------------------------------------------------------

\* A click on a row makes it the current item (currentItemChanged fires when
\* that is a change). In ExtendedSelection mode it also clears the selection
\* and selects the row (ClearAndSelect) or, with Ctrl held, commits the
\* current selection and toggles the row (Toggle).
ClickRow(st, item, ctrl) ==
    LET s0 == IF st.selectionMode = "NoSelection" THEN st
              ELSE IF ~ctrl
              THEN [st EXCEPT !.ranges = {}, !.pending = {item},
                              !.pendingToggle = FALSE]
              ELSE [Finalize(st) EXCEPT !.pending = {item},
                                        !.pendingToggle = TRUE]
        s1 == [s0 EXCEPT !.currentItem = item]
    IN  IF st.currentItem # item THEN FileSelection_update(s1) ELSE s1

\* ------------------------------------------------------------------------
\* Initial state and operations
\* ------------------------------------------------------------------------

\* What one drop event can deliver: event.mimeData().urls()
Batches == UNION {[1..n -> Paths] : n \in 0..MaxBatch}

\* What the file dialog can deliver: selectedFiles() names a file once
DialogBatches ==
    {s \in Batches : \A i, j \in 1..Len(s) : i # j => s[i] # s[j]}

\* The orders in which selectedItems() can list the selection
Orders(S) == {s \in [1..Cardinality(S) -> S] : Range(s) = S}

\* The record of an operation: item is the item (row) a click was on,
\* filename the argument of a direct add_file call, and selected the rows that
\* were selected when Delete was clicked.
Op(name) == [name |-> name, item |-> 0, filename |-> <<>>, selected |-> {}]

\* FileList.__init__ and FileSelection.__init__, up to the closing update()
Constructed ==
    [filenames |-> <<>>, created |-> <<>>, items |-> <<>>,
     taken |-> FALSE, currentItem |-> 0, ranges |-> {},
     pending |-> {}, pendingToggle |-> FALSE,
     selectionMode |-> "ExtendedSelection", acceptDrops |-> TRUE,
     server_on |-> FALSE,
     info_label |-> [visible |-> TRUE, file_count |-> 0,
                     total_size_readable |-> <<>>],
     add_button |-> TRUE, delete_button |-> TRUE,
     drop_here |-> FALSE, drop_count |-> FALSE,
     signals |-> <<>>, raised |-> FALSE]

\* The next state is the state record r, reached by operation op: the list
\* grows to MaxItems items at most. Between operations the items are named by
\* their rows (1 for the first row): an item that is out of the list is not
\* kept, `taken` says that there is one.
Commit(r, op) ==
    \E st \in {r} :
        /\ Count(st) <= (IF Len(items) > MaxItems THEN Len(items) ELSE MaxItems)
        /\ filenames' = st.filenames
        /\ created' = [i \in 1..Count(st) |-> st.created[st.items[i]]]
        /\ items' = [i \in 1..Count(st) |-> i]
        /\ taken' = st.taken
        /\ currentItem' = Row(st, st.currentItem) + 1
        /\ ranges' = {i \in 1..Count(st) : st.items[i] \in st.ranges}
        /\ pending' = {i \in 1..Count(st) : st.items[i] \in st.pending}
        /\ pendingToggle' = st.pendingToggle
        /\ selectionMode' = st.selectionMode
        /\ acceptDrops' = st.acceptDrops
        /\ server_on' = st.server_on
        /\ info_label' = st.info_label
        /\ add_button' = st.add_button
        /\ delete_button' = st.delete_button
        /\ drop_here' = st.drop_here
        /\ drop_count' = st.drop_count
        /\ signals' = st.signals
        /\ raised' = st.raised
        /\ lastOp' = op

Init ==
    LET st == FileSelection_update(Constructed)
    IN  /\ filenames = st.filenames
        /\ created = st.created
        /\ items = st.items
        /\ taken = st.taken
        /\ currentItem = st.currentItem
        /\ ranges = st.ranges
        /\ pending = st.pending
        /\ pendingToggle = st.pendingToggle
        /\ selectionMode = st.selectionMode
        /\ acceptDrops = st.acceptDrops
        /\ server_on = st.server_on
        /\ info_label = st.info_label
        /\ add_button = st.add_button
        /\ delete_button = st.delete_button
        /\ drop_here = st.drop_here
        /\ drop_count = st.drop_count
        /\ signals = st.signals
        /\ raised = FALSE
        /\ lastOp = Op("init")

\* --- what the user can do with the widgets that are visible and enabled ---

\* A drag enters the file list.
DragEnter ==
    /\ acceptDrops
    /\ ~drop_count
    /\ Commit(dragEnterEvent(State), Op("dragEnter"))

\* The drag leaves the file list again.
DragLeave ==
    /\ drop_count
    /\ Commit(dragLeaveEvent(State), Op("dragLeave"))

\* The drag enters the drop-here placeholder.
LabelDragEnter ==
    /\ drop_here
    /\ Commit(DropHereLabel_dragEnterEvent(State), Op("labelDragEnter"))

\* The dragged paths are dropped on the file list.
Drop ==
    /\ acceptDrops
    /\ drop_count
    /\ \E urls \in Batches :
          Commit(dropEvent(State, urls), Op("drop"))

\* The Add button is clicked and the file dialog is accepted or rejected.
AddClicked ==
    /\ add_button
    /\ \E selectedFiles \in DialogBatches, accepted \in BOOLEAN :
          /\ ~accepted => selectedFiles = <<>>
          /\ Commit(FileSelection_add(State, accepted, selectedFiles), Op("add"))

\* The Delete button is clicked.
DeleteClicked ==
    /\ delete_button
    /\ \E sel \in Orders(SelectedItems(State)) :
          Commit(FileSelection_delete(State, sel),
                 [Op("delete") EXCEPT !.selected = Range(sel)])

\* The delete button of a displayed item is clicked.
ItemButtonClicked ==
    \E item \in Range(items) :
        /\ created[item].item_button
        /\ Commit(delete_item(State, item),
                  [Op("delete_item") EXCEPT !.item = item])

\* A row of the list is clicked, with or without Ctrl.
RowClicked ==
    \E item \in Range(items), ctrl \in BOOLEAN :
        Commit(ClickRow(State, item, ctrl), Op("click"))

\* --- notifications from the sharing server ---

ServerStarted ==
    Commit(FileSelection_server_started(State), Op("server_started"))

ServerStopped ==
    Commit(FileSelection_server_stopped(State), Op("server_stopped"))

\* --- calls that do not go through a visible control ---

\* add_file called directly, as the main window does for the paths given on
\* the command line.
CallAddFile ==
    \E filename \in Paths :
        Commit(add_file(State, filename),
               [Op("add_file") EXCEPT !.filename = filename])

\* The delete_item closure of an item is called, whether its button is
\* visible or not and whether the item is still in the list or not (0 stands
\* for an item that has been taken out of the list).
CallDeleteItem ==
    \E item \in Range(items) \cup (IF taken THEN {0} ELSE {}) :
        Commit(delete_item(State, item),
               [Op("call_delete_item") EXCEPT !.item = item])

UserNext ==
    \/ DragEnter
    \/ DragLeave
    \/ LabelDragEnter
    \/ Drop
    \/ AddClicked
    \/ DeleteClicked
    \/ ItemButtonClicked
    \/ RowClicked

Next ==
    \/ UserNext
    \/ ServerStarted
    \/ ServerStopped

\* User events on visible controls and server notifications
Spec == Init /\ [][Next]_vars

NextCalls ==
    \/ Next
    \/ CallAddFile
    \/ CallDeleteItem

\* The same, plus direct calls of add_file and of the delete_item closures
SpecCalls == Init /\ [][NextCalls]_vars

\* The lists of distinct readable paths the window can be opened with
Loads ==
    {s \in UNION {[1..n -> {PathAZ, PathBA, PathDZ}] : n \in 0..MaxSelect} :
        \A i, j \in 1..Len(s) : i # j => s[i] # s[j]}

\* The window after construction and add_file for each path of a load
Loaded(load) == AddFiles(FileSelection_update(Constructed), load)

\* The window shows one of the loads, nothing is selected
InitDelete ==
    \E load \in Loads :
        LET st == Loaded(load)
        IN  /\ filenames = st.filenames
            /\ created = [i \in 1..Count(st) |-> st.created[st.items[i]]]
            /\ items = [i \in 1..Count(st) |-> i]
            /\ taken = st.taken
            /\ currentItem = Row(st, st.currentItem) + 1
            /\ ranges = {i \in 1..Count(st) : st.items[i] \in st.ranges}
            /\ pending = {i \in 1..Count(st) : st.items[i] \in st.pending}
            /\ pendingToggle = st.pendingToggle
            /\ selectionMode = st.selectionMode
            /\ acceptDrops = st.acceptDrops
            /\ server_on = st.server_on
            /\ info_label = st.info_label
            /\ add_button = st.add_button
            /\ delete_button = st.delete_button
            /\ drop_here = st.drop_here
            /\ drop_count = st.drop_count
            /\ signals = st.signals
            /\ raised = FALSE
            /\ lastOp = Op("init")

NextDelete ==
    \/ RowClicked
    \/ DeleteClicked

\* Selecting rows and clicking Delete on a list of up to MaxSelect items
SpecDelete == InitDelete /\ [][NextDelete]_vars

\* ------------------------------------------------------------------------
\* Properties
\* ------------------------------------------------------------------------

\* The operation that ran last was a click on an item's delete button
\* (through the button or as a direct call of the closure)
IsDeleteItem(op) == op.name \in {"delete_item", "call_delete_item"}

\* The paths of the displayed items, as a set
DisplayedPaths == Range(ItemPaths(State))

\* What a displayed item shows: its path, text and size
ItemData(i) == [filename |-> created[i].filename, text |-> created[i].text,
                size_bytes |-> created[i].size_bytes]

\* The entry set: the tracked paths and the displayed items with their sizes
EntrySet == <<filenames, [i \in 1..Len(items) |-> ItemData(i)]>>

\* The sum of the sizes of the tracked paths
RECURSIVE TrackedSize(_)
TrackedSize(list) ==
    IF list = <<>> THEN 0 ELSE SizeBytes(Head(list)) + TrackedSize(Tail(list))

\* C1: removing a displayed entry, through its own delete button or through
\* the Delete button for every selected item, removes exactly the paths of
\* the removed entries from the tracked path list, leaves the other tracked
\* paths in place, and emits files_updated.
C1_RemovesExactlyThatPath ==
    [][/\ lastOp'.name = "delete_item" =>
            /\ Range(filenames') = Range(filenames) \ {created[lastOp'.item].filename}
            /\ "files_updated" \in Range(signals')
       /\ lastOp'.name = "delete" =>
            /\ Range(filenames') =
                  Range(filenames) \ {created[i].filename : i \in SelectedItems(State)}
            /\ "files_updated" \in Range(signals')]_vars

\* C2: no two entries share a path, neither in the tracked path list nor
\* among the displayed items.
C2_NoDuplicatePaths ==
    /\ \A i, j \in 1..Len(filenames) : i # j => filenames[i] # filenames[j]
    /\ \A i, j \in 1..Len(items) : i # j => created[i].filename # created[j].filename

\* C3: add_file on a path that fails the readability check shows the alert
\* and changes nothing else: tracked paths, items, selection, server flag and
\* every widget stay as they are and files_updated is not emitted.
C3_UnreadableAddChangesNothing ==
    \A filename \in Paths :
        (~Readable(filename) /\ filename \notin Range(filenames)) =>
            add_file(State, filename) = [State EXCEPT !.signals = <<"alert">>]

\* C3 happens: a direct add_file on a non-empty list ended in the alert.
C3_Witness ==
    /\ lastOp.name = "add_file"
    /\ ~Readable(lastOp.filename)
    /\ signals = <<"alert">>
    /\ Len(filenames) > 0

\* The readable paths of a batch are tracked in st, and those that were not
\* tracked before the batch have an item in st.
BatchAdded(st, urls) ==
    \A k \in 1..Len(urls) :
        Readable(urls[k]) =>
            /\ urls[k] \in Range(st.filenames)
            /\ urls[k] \notin Range(filenames) =>
                  \E i \in 1..Len(st.items) :
                      st.created[st.items[i]].filename = urls[k]

\* C4: whatever batch is dropped or chosen in the file dialog, every readable
\* path of the batch is in the list afterwards, wherever the unreadable and
\* the repeated paths of the batch are.
C4_BatchPathsIndependent ==
    \A urls \in Batches :
        /\ BatchAdded(dropEvent(State, urls), urls)
        /\ urls \in DialogBatches =>
              BatchAdded(FileSelection_add(State, TRUE, urls), urls)

\* C4 happens: one batch showed the alert for a path and added a later path.
C4_Witness ==
    /\ lastOp.name \in {"drop", "add"}
    /\ \E i, j \in 1..Len(signals) :
          i < j /\ signals[i] = "alert" /\ signals[j] = "files_updated"

\* C5: the info label reports the number of tracked paths and the sum of
\* their sizes.
C5_LabelReportsTrackedPaths ==
    info_label.visible =>
        /\ info_label.file_count = get_num_files(State)
        /\ info_label.total_size_readable =
              HumanReadableFilesize(TrackedSize(filenames))

\* C6: the tracked path list is in ascending lexicographic order.
C6_FilenamesSorted ==
    \A i, j \in 1..Len(filenames) :
        i < j => StrLess(filenames[i], filenames[j])

\* C6 happens: the path added last went in front of a path added before it.
C6_Witness ==
    /\ lastOp.name = "add_file"
    /\ "files_updated" \in Range(signals)
    /\ Len(filenames) >= 2
    /\ filenames[1] = lastOp.filename

\* C7: server_started and server_stopped leave the tracked path list and the
\* displayed items (with their sizes) as they are.
C7_ServerToggleKeepsEntries ==
    [][lastOp'.name \in {"server_started", "server_stopped"} =>
            EntrySet' = EntrySet]_vars

\* C7 happens: the server started on a list with items, whose delete buttons
\* are hidden now.
C7_Witness ==
    /\ lastOp.name = "server_started"
    /\ Len(items) > 0
    /\ Len(filenames) > 0
    /\ \A i \in 1..Len(items) : ~created[i].item_button

\* Every control that changes the entry set is switched off
ControlsOff ==
    /\ ~acceptDrops
    /\ ~add_button
    /\ ~delete_button
    /\ \A i \in 1..Len(items) : ~created[i].item_button

\* C8: while the server is running drops are not accepted and the Add
\* button, the Delete button and every item's delete button are hidden, and
\* no user event changes the entry set.
C8_LockedWhileServerOn ==
    /\ [](server_on => ControlsOff)
    /\ [][(server_on /\ server_on') => EntrySet' = EntrySet]_vars

\* C8 happens: the user clicked a row of a list with items while the server
\* was running.
C8_Witness ==
    /\ server_on
    /\ lastOp.name = "click"
    /\ currentItem # 0
    /\ Len(filenames) > 0

\* C9: a removal request for an entry that is not in the list (Delete with
\* nothing selected, or the delete_item closure of an item that was taken out
\* of the list) leaves the entry set as it is and does not raise.
C9_RemovingAbsentIsNoOp ==
    [][(\/ lastOp'.name = "delete" /\ SelectedItems(State) = {}
        \/ lastOp'.name = "call_delete_item" /\ lastOp'.item = 0) =>
            /\ EntrySet' = EntrySet
            /\ ~raised']_vars

\* C10: server_on is false at first, server_started sets it, server_stopped
\* clears it, and no other operation changes it.
C10_ServerFlag ==
    /\ ~server_on
    /\ [][server_on' = CASE lastOp'.name = "server_started" -> TRUE
                         [] lastOp'.name = "server_stopped" -> FALSE
                         [] OTHER -> server_on]_vars

\* C10 happens: the server is running and a delete_item closure was called,
\* which left the flag set.
C10_Witness ==
    /\ server_on
    /\ IsDeleteItem(lastOp)
    /\ taken

\* The widgets show what FileSelection.update computes from the present
\* state: running it again would change none of them.
Refreshed ==
    LET st == FileSelection_update(State)
    IN  /\ st.info_label = info_label
        /\ st.add_button = add_button
        /\ st.delete_button = delete_button
        /\ st.drop_here = drop_here

\* The operations that change the entry set or the server flag
MutationOps ==
    {"drop", "add", "delete", "delete_item", "call_delete_item", "add_file",
     "server_started", "server_stopped"}

\* C11: every add that went through, every removal that returned (by an
\* item's button or by Delete) and every server start and stop ends with a
\* run of FileSelection.update after the change: update is the last thing
\* the operation did, and the info label, the Add and Delete buttons and the
\* placeholder show the state the operation left.
C11_MutationEndsWithRefresh ==
    (/\ lastOp.name \in MutationOps
     /\ ~raised
     /\ lastOp.name = "add_file" => "files_updated" \in Range(signals)) =>
        /\ signals # <<>>
        /\ signals[Len(signals)] = "update"
        /\ Refreshed

\* C11 happens: an item's delete closure was called while the server was
\* running and took its item out of a list that still shows another one.
C11_Witness ==
    /\ lastOp.name = "call_delete_item"
    /\ lastOp.item # 0
    /\ ~raised
    /\ server_on
    /\ "files_updated" \in Range(signals)
    /\ Len(items) > 0

\* How many times path p occurs in the sequence of paths s
Occurrences(s, p) == Cardinality({i \in 1..Len(s) : s[i] = p})

\* C12: the paths of the displayed items and the tracked path list hold the
\* same paths the same number of times.
C12_DisplayMatchesTracked ==
    \A p \in Paths :
        Occurrences(ItemPaths(State), p) = Occurrences(filenames, p)

C14_NotBlockedByServer ==
    [][server_on =>
          /\ (/\ lastOp'.name = "add_file"
              /\ Readable(lastOp'.filename)
              /\ lastOp'.filename \notin Range(filenames)) =>
                 /\ filenames' = Sort(Append(filenames, lastOp'.filename))
                 /\ Len(items') = Len(items) + 1
                 /\ \E i \in 1..Len(items') :
                       /\ created'[i].filename = lastOp'.filename
                       /\ RemoveAt(EntrySet'[2], i) = EntrySet[2]
          /\ (/\ lastOp'.name = "call_delete_item"
              /\ lastOp'.item # 0
              /\ ~raised') =>
                 /\ Len(filenames') = Len(filenames) - 1
                 /\ EntrySet'[2] = RemoveAt(EntrySet[2], lastOp'.item)]_vars

\* C14 happens: add_file was called directly while the server was running
\* and its path went into the list.
C14_Witness ==
    /\ server_on
    /\ lastOp.name = "add_file"
    /\ "files_updated" \in Range(signals)
    /\ lastOp.filename \in Range(filenames)
    /\ lastOp.filename \in DisplayedPaths

\* C15: the Delete button is visible exactly when the server is not running
\* and the list has a current item, the Add button exactly when the server is
\* not running; and right after server_started, server_stopped, add and
\* delete no item is current and the Delete button is hidden.
C15_DeleteButtonFollowsCurrent ==
    /\ delete_button <=> (~server_on /\ currentItem # 0)
    /\ add_button <=> ~server_on
    /\ lastOp.name \in {"server_started", "server_stopped", "add", "delete"} =>
          /\ currentItem = 0
          /\ ~delete_button

\* C16: the delete button of every displayed item is hidden exactly when the
\* server is running.
C16_ItemButtonsFollowServer ==
    \A i \in 1..Len(items) : created[i].item_button <=> ~server_on

\* C16 happens: the server stopped on a list with items, whose delete buttons
\* are visible again.
C16_Witness ==
    /\ lastOp.name = "server_stopped"
    /\ ~server_on
    /\ Len(items) > 0
    /\ \A i \in 1..Len(items) : created[i].item_button

\* The operations that C18 names: the end of a drag over the list, add,
\* delete (by Delete or by an item's button) and the server start and stop
PlaceholderOps ==
    {"drop", "dragLeave", "add", "delete", "delete_item",
     "server_started", "server_stopped"}

\* C18: after every drop and every drag-leave on the list, every add, every
\* delete and every server start and stop, the drop-here placeholder is
\* visible exactly when the tracked path list is empty.
C18_PlaceholderIffEmpty ==
    lastOp.name \in PlaceholderOps => (drop_here <=> Len(filenames) = 0)

\* C18 happens: a drag left the empty list and the placeholder is shown.
C18_Witness ==
    /\ lastOp.name = "dragLeave"
    /\ Len(filenames) = 0
    /\ drop_here
    /\ ~drop_count

\* The elements of the sequence s whose rows (1 for the first) are not in rows
RECURSIVE WithoutRows(_, _)
WithoutRows(s, rows) ==
    IF s = <<>> THEN <<>>
    ELSE WithoutRows(SubSeq(s, 1, Len(s) - 1), rows)
         \o (IF Len(s) \in rows THEN <<>> ELSE <<s[Len(s)]>>)

\* C17: one click on Delete takes every selected item out of the display and
\* as many paths out of the tracked path list; the unselected items, and only
\* they, stay displayed, in their order.
C17_DeleteRemovesSelection ==
    [][lastOp'.name = "delete" =>
          /\ ~raised'
          /\ lastOp'.selected = SelectedItems(State)
          /\ EntrySet'[2] = WithoutRows(EntrySet[2], SelectedItems(State))
          /\ Len(filenames') = Len(filenames) - Cardinality(SelectedItems(State))]_vars

\* C17 happens: Delete was clicked with several items selected and an
\* unselected item stayed.
C17_Witness ==
    /\ lastOp.name = "delete"
    /\ Cardinality(lastOp.selected) >= 2
    /\ Len(items) >= 1
    /\ Len(filenames) = Len(items)

====
